---- MODULE Spec2Model ----
(***************************************************************************)
(* The timing-based Morse decoder of detector.py: the receive loop of      *)
(* main_receiver, its two-state LED state machine, the silence check that  *)
(* runs on the print interval, the clear-output key, and the final decode  *)
(* after the loop.                                                         *)
(*                                                                         *)
(* Time is counted in tenths of a second, so the thresholds 0.400, 0.500,  *)
(* 1.000 and the print interval 0.5 are 4, 5, 10 and 5.  The code only     *)
(* ever uses its three clock readings through the two differences          *)
(*    current_time - last_state_change_time   (time_elapsed, line 154)     *)
(*    current_time - last_print_time          (line 179)                   *)
(* so the state holds these two differences, as of the most recent frame.  *)
(* A frame that arrives dt later sees both grown by dt; storing "now" in   *)
(* last_state_change_time or last_print_time sets the difference to 0.     *)
(* Differences beyond every threshold are indistinguishable to the code    *)
(* and are kept at a ceiling (MaxElapsed, MaxPrintElapsed).                *)
(*                                                                         *)
(* Strings are sequences of one-character strings.                         *)
(***************************************************************************)
EXTENDS Integers, Sequences, FiniteSets, TLC

\* ---------------------------------------------------------------- bounds
\* Frames follow one another at the camera's pace (one tenth of a second)
\* or after a stall of MaxDelta tenths of a second.
MaxDelta == 5
\* Longest symbol buffer and longest message the loop is followed to.
MaxSymLen == 1
MaxMsgLen == 2

\* ------------------------------------------------------------- constants
DOT_DASH_THRESHOLD_S == 4
LETTER_GAP_THRESHOLD_S == 5
WORD_GAP_THRESHOLD_S == 10
PRINT_INTERVAL == 5

MORSE_TO_TEXT ==
  (<<".", "-">> :> "A") @@ (<<"-", ".", ".", ".">> :> "B") @@
  (<<"-", ".", "-", ".">> :> "C") @@ (<<"-", ".", ".">> :> "D") @@
  (<<".">> :> "E") @@ (<<".", ".", "-", ".">> :> "F") @@
  (<<"-", "-", ".">> :> "G") @@ (<<".", ".", ".", ".">> :> "H") @@
  (<<".", ".">> :> "I") @@ (<<".", "-", "-", "-">> :> "J") @@
  (<<"-", ".", "-">> :> "K") @@ (<<".", "-", ".", ".">> :> "L") @@
  (<<"-", "-">> :> "M") @@ (<<"-", ".">> :> "N") @@
  (<<"-", "-", "-">> :> "O") @@ (<<".", "-", "-", ".">> :> "P") @@
  (<<"-", "-", ".", "-">> :> "Q") @@ (<<".", "-", ".">> :> "R") @@
  (<<".", ".", ".">> :> "S") @@ (<<"-">> :> "T") @@
  (<<".", ".", "-">> :> "U") @@ (<<".", ".", ".", "-">> :> "V") @@
  (<<".", "-", "-">> :> "W") @@ (<<"-", ".", ".", "-">> :> "X") @@
  (<<"-", ".", "-", "-">> :> "Y") @@ (<<"-", "-", ".", ".">> :> "Z") @@
  (<<".", "-", "-", "-", "-">> :> "1") @@ (<<".", ".", "-", "-", "-">> :> "2") @@
  (<<".", ".", ".", "-", "-">> :> "3") @@ (<<".", ".", ".", ".", "-">> :> "4") @@
  (<<".", ".", ".", ".", ".">> :> "5") @@ (<<"-", ".", ".", ".", ".">> :> "6") @@
  (<<"-", "-", ".", ".", ".">> :> "7") @@ (<<"-", "-", "-", ".", ".">> :> "8") @@
  (<<"-", "-", "-", "-", ".">> :> "9") @@ (<<"-", "-", "-", "-", "-">> :> "0")

\* Ceilings of the two stored differences: one past the largest threshold
\* each is compared with, so no comparison of the code can tell a larger
\* value from the ceiling.
MaxElapsed == WORD_GAP_THRESHOLD_S + 1
MaxPrintElapsed == PRINT_INTERVAL + 1

\* ------------------------------------------------------------- variables
VARIABLES
  led_state,              \* 0 = LED off, 1 = LED on
  current_morse_symbol,   \* the dots and dashes of the letter in progress
  decoded_message,        \* the decoded text
  time_elapsed,           \* current_time - last_state_change_time
  print_elapsed,          \* current_time - last_print_time
  display_symbol_action,  \* the "Last Action" shown on screen
  pc,                     \* "loop", "exited" (after break), "done"
  final_message,          \* what "Final Decoded Message:" prints
  silence_spaces,         \* history: silence-check spaces since the last edge
  quiet_spaces,           \* history: the same, since the last edge or clear
  quit_requested,         \* environment: 'q' was pressed and waits to be read
  skipped_frames,         \* history: parity of the frames skipped since then
  shadow                  \* history: buffer and message of a decoder that is
                          \* shown the same edges and no frame in between

vars == <<led_state, current_morse_symbol, decoded_message, time_elapsed,
          print_elapsed, display_symbol_action, pc, final_message,
          silence_spaces, quiet_spaces, quit_requested, skipped_frames,
          shadow>>

\* --------------------------------------------------------------- helpers
Deltas == {1, MaxDelta}

Keys == {"none", "c", "q"}

Min(a, b) == IF a < b THEN a ELSE b

\* str.endswith(" ")
EndsWithSpace(s) == Len(s) > 0 /\ s[Len(s)] = " "

\* A lookup whose default for a pattern missing from the table is '?'.
decode_morse_QuestionMark(morse_code, morse_table) ==
  IF morse_code \in DOMAIN morse_table THEN morse_table[morse_code] ELSE "?"

\* morse_table.get(morse_code, '#')
decode_morse(morse_code, morse_table) ==
  IF morse_code \in DOMAIN morse_table THEN morse_table[morse_code] ELSE "#"

RECURSIVE LStrip(_)
LStrip(s) == IF s # <<>> /\ Head(s) = " " THEN LStrip(Tail(s)) ELSE s

RECURSIVE RStrip(_)
RStrip(s) ==
  IF s # <<>> /\ s[Len(s)] = " " THEN RStrip(SubSeq(s, 1, Len(s) - 1)) ELSE s

\* A strip that forgets the leading spaces (str.rstrip()).
Strip_TrailingOnly(s) == RStrip(s)

\* str.strip()
Strip(s) == RStrip(LStrip(s))

\* The decoder's variables as one record.
Decoder ==
  [led_state |-> led_state,
   current_morse_symbol |-> current_morse_symbol,
   decoded_message |-> decoded_message,
   time_elapsed |-> time_elapsed,
   print_elapsed |-> print_elapsed,
   display_symbol_action |-> display_symbol_action]

\* The state after lines 104-117.
Fresh ==
  [led_state |-> 0,
   current_morse_symbol |-> <<>>,
   decoded_message |-> <<>>,
   time_elapsed |-> 0,
   print_elapsed |-> 0,
   display_symbol_action |-> "IDLE"]

\* ------------------------------------------------------- the state machine
\* A frame read dt after the previous one: line 153 reads the clock, line
\* 154 takes the difference; the difference of line 179 grows alike.
Tick(d, dt) ==
  [d EXCEPT !.time_elapsed = Min(@ + dt, MaxElapsed),
            !.print_elapsed = Min(@ + dt, MaxPrintElapsed)]

\* A rising edge whose word-gap branch appends its space without looking
\* at the end of the message.
RisingEdge_NoSpaceGuard(d) ==
  LET letter == IF d.current_morse_symbol # <<>>
                THEN Append(d.decoded_message,
                            decode_morse(d.current_morse_symbol, MORSE_TO_TEXT))
                ELSE d.decoded_message
  IN  IF d.time_elapsed >= WORD_GAP_THRESHOLD_S
      THEN [d EXCEPT !.decoded_message = Append(letter, " "),
                     !.current_morse_symbol = <<>>,
                     !.display_symbol_action = "WORD_SPACE",
                     !.led_state = 1,
                     !.time_elapsed = 0]
      ELSE IF d.time_elapsed >= LETTER_GAP_THRESHOLD_S
      THEN [d EXCEPT
              !.decoded_message = letter,
              !.current_morse_symbol = <<>>,
              !.display_symbol_action =
                 IF d.current_morse_symbol # <<>> THEN "LETTER_SPACE" ELSE @,
              !.led_state = 1,
              !.time_elapsed = 0]
      ELSE [d EXCEPT !.led_state = 1, !.time_elapsed = 0]

\* A rising edge that takes a gap of exactly WORD_GAP_THRESHOLD_S for a
\* letter gap ('>' for '>=' on line 162).
RisingEdge_StrictWordGap(d) ==
  LET letter == IF d.current_morse_symbol # <<>>
                THEN Append(d.decoded_message,
                            decode_morse(d.current_morse_symbol, MORSE_TO_TEXT))
                ELSE d.decoded_message
  IN  IF d.time_elapsed > WORD_GAP_THRESHOLD_S
      THEN [d EXCEPT
              !.decoded_message =
                 IF EndsWithSpace(letter) THEN letter ELSE Append(letter, " "),
              !.current_morse_symbol = <<>>,
              !.display_symbol_action =
                 IF EndsWithSpace(letter) THEN @ ELSE "WORD_SPACE",
              !.led_state = 1,
              !.time_elapsed = 0]
      ELSE IF d.time_elapsed >= LETTER_GAP_THRESHOLD_S
      THEN [d EXCEPT
              !.decoded_message = letter,
              !.current_morse_symbol = <<>>,
              !.display_symbol_action =
                 IF d.current_morse_symbol # <<>> THEN "LETTER_SPACE" ELSE @,
              !.led_state = 1,
              !.time_elapsed = 0]
      ELSE [d EXCEPT !.led_state = 1, !.time_elapsed = 0]

\* A rising edge that takes a gap of exactly LETTER_GAP_THRESHOLD_S for an
\* element gap ('>' for '>=' on line 170).
RisingEdge_StrictLetterGap(d) ==
  LET letter == IF d.current_morse_symbol # <<>>
                THEN Append(d.decoded_message,
                            decode_morse(d.current_morse_symbol, MORSE_TO_TEXT))
                ELSE d.decoded_message
  IN  IF d.time_elapsed >= WORD_GAP_THRESHOLD_S
      THEN [d EXCEPT
              !.decoded_message =
                 IF EndsWithSpace(letter) THEN letter ELSE Append(letter, " "),
              !.current_morse_symbol = <<>>,
              !.display_symbol_action =
                 IF EndsWithSpace(letter) THEN @ ELSE "WORD_SPACE",
              !.led_state = 1,
              !.time_elapsed = 0]
      ELSE IF d.time_elapsed > LETTER_GAP_THRESHOLD_S
      THEN [d EXCEPT
              !.decoded_message = letter,
              !.current_morse_symbol = <<>>,
              !.display_symbol_action =
                 IF d.current_morse_symbol # <<>> THEN "LETTER_SPACE" ELSE @,
              !.led_state = 1,
              !.time_elapsed = 0]
      ELSE [d EXCEPT !.led_state = 1, !.time_elapsed = 0]

\* A rising edge that decodes the buffer at a letter or word gap whether or
\* not it holds anything.
RisingEdge_UnguardedFlush(d) ==
  LET off_duration == d.time_elapsed
      letter == Append(d.decoded_message,
                       decode_morse(d.current_morse_symbol, MORSE_TO_TEXT))
  IN  IF off_duration >= WORD_GAP_THRESHOLD_S
      THEN [d EXCEPT
              !.decoded_message =
                 IF EndsWithSpace(letter) THEN letter ELSE Append(letter, " "),
              !.current_morse_symbol = <<>>,
              !.display_symbol_action =
                 IF EndsWithSpace(letter) THEN @ ELSE "WORD_SPACE",
              !.led_state = 1,
              !.time_elapsed = 0]
      ELSE IF off_duration >= LETTER_GAP_THRESHOLD_S
      THEN [d EXCEPT
              !.decoded_message = letter,
              !.current_morse_symbol = <<>>,
              !.display_symbol_action = "LETTER_SPACE",
              !.led_state = 1,
              !.time_elapsed = 0]
      ELSE [d EXCEPT !.led_state = 1, !.time_elapsed = 0]

\* led_state == 0 and the LED is on (lines 159-177); d.time_elapsed is
\* off_duration.
RisingEdge(d) ==
  LET off_duration == d.time_elapsed
      letter == IF d.current_morse_symbol # <<>>
                THEN Append(d.decoded_message,
                            decode_morse(d.current_morse_symbol, MORSE_TO_TEXT))
                ELSE d.decoded_message
  IN  IF off_duration >= WORD_GAP_THRESHOLD_S
      THEN [d EXCEPT
              !.decoded_message =
                 IF EndsWithSpace(letter) THEN letter ELSE Append(letter, " "),
              !.current_morse_symbol = <<>>,
              !.display_symbol_action =
                 IF EndsWithSpace(letter) THEN @ ELSE "WORD_SPACE",
              !.led_state = 1,
              !.time_elapsed = 0]
      ELSE IF off_duration >= LETTER_GAP_THRESHOLD_S
      THEN [d EXCEPT
              !.decoded_message = letter,
              !.current_morse_symbol = <<>>,
              !.display_symbol_action =
                 IF d.current_morse_symbol # <<>> THEN "LETTER_SPACE" ELSE @,
              !.led_state = 1,
              !.time_elapsed = 0]
      ELSE [d EXCEPT !.led_state = 1, !.time_elapsed = 0]

\* A silence check that appends its space without looking at the end of the
\* message.
SilenceCheck_NoSpaceGuard(d) ==
  IF d.print_elapsed > PRINT_INTERVAL
  THEN IF d.time_elapsed > WORD_GAP_THRESHOLD_S
       THEN [d EXCEPT
               !.decoded_message =
                  IF d.current_morse_symbol # <<>>
                  THEN Append(Append(@, decode_morse(d.current_morse_symbol,
                                                     MORSE_TO_TEXT)), " ")
                  ELSE Append(@, " "),
               !.current_morse_symbol = <<>>,
               !.display_symbol_action = "WORD_SPACE (Continuous)",
               !.print_elapsed = 0]
       ELSE [d EXCEPT !.print_elapsed = 0]
  ELSE d

\* A silence check that restarts the silence timer when it appends its
\* space.
SilenceCheck_RestartsTimer(d) ==
  IF d.print_elapsed > PRINT_INTERVAL
  THEN IF d.time_elapsed > WORD_GAP_THRESHOLD_S
          /\ ~EndsWithSpace(d.decoded_message)
       THEN [d EXCEPT
               !.decoded_message =
                  IF d.current_morse_symbol # <<>>
                  THEN Append(Append(@, decode_morse(d.current_morse_symbol,
                                                     MORSE_TO_TEXT)), " ")
                  ELSE Append(@, " "),
               !.current_morse_symbol = <<>>,
               !.display_symbol_action = "WORD_SPACE (Continuous)",
               !.print_elapsed = 0,
               !.time_elapsed = 0]
       ELSE [d EXCEPT !.print_elapsed = 0]
  ELSE d

\* A silence check that appends its space and empties the buffer without
\* decoding it.
SilenceCheck_DropsBuffer(d) ==
  IF d.print_elapsed > PRINT_INTERVAL
  THEN IF d.time_elapsed > WORD_GAP_THRESHOLD_S
          /\ ~EndsWithSpace(d.decoded_message)
       THEN [d EXCEPT
               !.decoded_message = Append(@, " "),
               !.current_morse_symbol = <<>>,
               !.display_symbol_action = "WORD_SPACE (Continuous)",
               !.print_elapsed = 0]
       ELSE [d EXCEPT !.print_elapsed = 0]
  ELSE d

\* led_state == 0 and the LED is off (lines 178-186): the silence check,
\* made when more than PRINT_INTERVAL has passed since the last one.
SilenceCheck(d) ==
  IF d.print_elapsed > PRINT_INTERVAL
  THEN IF d.time_elapsed > WORD_GAP_THRESHOLD_S
          /\ ~EndsWithSpace(d.decoded_message)
       THEN [d EXCEPT
               !.decoded_message =
                  IF d.current_morse_symbol # <<>>
                  THEN Append(Append(@, decode_morse(d.current_morse_symbol,
                                                     MORSE_TO_TEXT)), " ")
                  ELSE Append(@, " "),
               !.current_morse_symbol = <<>>,
               !.display_symbol_action = "WORD_SPACE (Continuous)",
               !.print_elapsed = 0]
       ELSE [d EXCEPT !.print_elapsed = 0]
  ELSE d

\* A falling edge that takes a pulse of exactly DOT_DASH_THRESHOLD_S for a
\* dot ('<=' for '<' on line 192).
FallingEdge_BoundaryDot(d) ==
  IF d.time_elapsed <= DOT_DASH_THRESHOLD_S
  THEN [d EXCEPT !.current_morse_symbol = Append(@, "."),
                 !.display_symbol_action = "DOT",
                 !.led_state = 0,
                 !.time_elapsed = 0]
  ELSE [d EXCEPT !.current_morse_symbol = Append(@, "-"),
                 !.display_symbol_action = "DASH",
                 !.led_state = 0,
                 !.time_elapsed = 0]

\* A falling edge that takes a pulse of no or negative length for a glitch
\* and appends nothing for it.
FallingEdge_DropsEmptyPulse(d) ==
  LET on_duration == d.time_elapsed
  IN  IF on_duration <= 0
      THEN [d EXCEPT !.led_state = 0,
                     !.time_elapsed = 0]
      ELSE IF on_duration < DOT_DASH_THRESHOLD_S
      THEN [d EXCEPT !.current_morse_symbol = Append(@, "."),
                     !.display_symbol_action = "DOT",
                     !.led_state = 0,
                     !.time_elapsed = 0]
      ELSE [d EXCEPT !.current_morse_symbol = Append(@, "-"),
                     !.display_symbol_action = "DASH",
                     !.led_state = 0,
                     !.time_elapsed = 0]

\* led_state == 1 and the LED is off (lines 189-200); d.time_elapsed is
\* on_duration.
FallingEdge(d) ==
  LET on_duration == d.time_elapsed
  IN  IF on_duration < DOT_DASH_THRESHOLD_S
      THEN [d EXCEPT !.current_morse_symbol = Append(@, "."),
                     !.display_symbol_action = "DOT",
                     !.led_state = 0,
                     !.time_elapsed = 0]
      ELSE [d EXCEPT !.current_morse_symbol = Append(@, "-"),
                     !.display_symbol_action = "DASH",
                     !.led_state = 0,
                     !.time_elapsed = 0]

\* A state machine that restarts the timer on every frame that shows the
\* light on, edge or not.
StateMachine_OnRestartsTimer(d, is_led_on) ==
  IF d.led_state = 0
  THEN IF is_led_on THEN RisingEdge(d) ELSE SilenceCheck(d)
  ELSE IF ~is_led_on THEN FallingEdge(d) ELSE [d EXCEPT !.time_elapsed = 0]

\* Lines 158-200 on the frame's differences.
StateMachine(d, is_led_on) ==
  IF d.led_state = 0
  THEN IF is_led_on THEN RisingEdge(d) ELSE SilenceCheck(d)
  ELSE IF ~is_led_on THEN FallingEdge(d) ELSE d

\* Key 'c' handled as a restart of the whole decoder: the light state is
\* put back to off as well.
ClearOutput_ResetsState(d) ==
  [d EXCEPT !.current_morse_symbol = <<>>,
            !.decoded_message = <<>>,
            !.display_symbol_action = "OUTPUT CLEARED",
            !.time_elapsed = 0,
            !.led_state = 0]

\* Key 'c' (lines 301-305).
ClearOutput(d) ==
  [d EXCEPT !.current_morse_symbol = <<>>,
            !.decoded_message = <<>>,
            !.display_symbol_action = "OUTPUT CLEARED",
            !.time_elapsed = 0]

\* A final decode that prints the last letter alone: the message is replaced
\* by the decoded buffer.
FinalDecode_Overwrite(d) ==
  IF d.current_morse_symbol # <<>>
  THEN [d EXCEPT !.decoded_message =
          <<decode_morse(d.current_morse_symbol, MORSE_TO_TEXT)>>]
  ELSE d

\* The final decode check (lines 315-316).
FinalDecode(d) ==
  IF d.current_morse_symbol # <<>>
  THEN [d EXCEPT !.decoded_message =
          Append(@, decode_morse(d.current_morse_symbol, MORSE_TO_TEXT))]
  ELSE d

\* ----------------------------------------------------------------- actions
Init ==
  /\ led_state = 0
  /\ current_morse_symbol = <<>>
  /\ decoded_message = <<>>
  /\ time_elapsed = 0
  /\ print_elapsed = 0
  /\ display_symbol_action = "IDLE"
  /\ pc = "loop"
  /\ final_message = <<>>
  /\ silence_spaces = 0
  /\ quiet_spaces = 0
  /\ quit_requested = FALSE
  /\ skipped_frames = 0
  /\ shadow = [current_morse_symbol |-> <<>>, decoded_message |-> <<>>]

\* One iteration of the while loop that reaches the keyboard check, followed
\* while the buffer and the message stay within max_sym and max_msg.
FrameWithin(dt, is_led_on, key, max_sym, max_msg) ==
  \E after \in {StateMachine(Tick(Decoder, dt), is_led_on)} :
  \E d \in {IF key = "c" THEN ClearOutput(after) ELSE after} :
  \E edge \in {after.led_state # led_state} :
  \E spaced \in {~edge /\ led_state = 0
                 /\ after.decoded_message # decoded_message} :
      /\ pc = "loop"
      /\ Len(after.current_morse_symbol) <= max_sym
      /\ Len(after.decoded_message) <= max_msg
      /\ led_state' = d.led_state
      /\ current_morse_symbol' = d.current_morse_symbol
      /\ decoded_message' = d.decoded_message
      /\ time_elapsed' = d.time_elapsed
      /\ print_elapsed' = d.print_elapsed
      /\ display_symbol_action' = d.display_symbol_action
      /\ pc' = IF key = "q" THEN "exited" ELSE "loop"
      /\ silence_spaces' = IF edge THEN 0
                           ELSE IF spaced THEN Min(silence_spaces + 1, 2)
                           ELSE silence_spaces
      /\ quiet_spaces' = IF edge \/ key = "c" THEN 0
                         ELSE IF spaced THEN Min(quiet_spaces + 1, 2)
                         ELSE quiet_spaces
      /\ UNCHANGED <<final_message, quit_requested, skipped_frames>>

\* One iteration of the while loop that reaches the keyboard check.
Frame(dt, is_led_on, key) ==
  /\ FrameWithin(dt, is_led_on, key, MaxSymLen, MaxMsgLen)
  /\ UNCHANGED shadow

\* The ROI does not fit the frame (lines 141-143): `continue` ends the
\* iteration before the state machine and before the keyboard check.
SkipIteration(dt) ==
  /\ pc = "loop"
  /\ time_elapsed' = Min(time_elapsed + dt, MaxElapsed)
  /\ print_elapsed' = Min(print_elapsed + dt, MaxPrintElapsed)
  /\ UNCHANGED <<led_state, current_morse_symbol, decoded_message,
                 display_symbol_action, pc, final_message, silence_spaces,
                 quiet_spaces, quit_requested, shadow>>

\* The ROI does not fit the frame (lines 141-143): the iteration is skipped.
SkipFrame(dt) ==
  /\ SkipIteration(dt)
  /\ UNCHANGED skipped_frames

\* cap.read() fails (lines 125-126): the loop ends.
ReadFail ==
  /\ pc = "loop"
  /\ pc' = "exited"
  /\ UNCHANGED <<led_state, current_morse_symbol, decoded_message,
                 time_elapsed, print_elapsed, display_symbol_action,
                 final_message, silence_spaces, quiet_spaces, quit_requested,
                 skipped_frames, shadow>>

\* After the loop (lines 310-319): final decode, print the stripped message.
Cleanup ==
  /\ pc = "exited"
  /\ decoded_message' = FinalDecode(Decoder).decoded_message
  /\ final_message' = Strip(FinalDecode(Decoder).decoded_message)
  /\ pc' = "done"
  /\ UNCHANGED <<led_state, current_morse_symbol, time_elapsed, print_elapsed,
                 display_symbol_action, silence_spaces, quiet_spaces,
                 quit_requested, skipped_frames, shadow>>

Next ==
  \/ \E dt \in Deltas, is_led_on \in BOOLEAN, key \in Keys :
        Frame(dt, is_led_on, key)
  \/ \E dt \in Deltas : SkipFrame(dt)
  \/ ReadFail
  \/ Cleanup

Spec == Init /\ [][Next]_vars

\* Frames keep arriving while the loop runs; in particular frames that show
\* the LED off keep being processed for as long as the LED stays off.
OffFrame == \E dt \in Deltas : Frame(dt, FALSE, "none")

LiveSpec == Init /\ [][Next]_vars /\ WF_vars(OffFrame)

\* ------------------------------------------------------------------ claims
\* The decoded character of the buffer, as the flushes compute it.
Letter == decode_morse(current_morse_symbol, MORSE_TO_TEXT)

\* Keys that leave the output alone.
QuietKeys == {"none", "q"}

\* C1: the decoded message never contains two consecutive spaces.
C1_NoDoubleSpace ==
  \A i \in 1..(Len(decoded_message) - 1) :
     ~(decoded_message[i] = " " /\ decoded_message[i + 1] = " ")

\* C1 witness: the silence check has put a space at the end of the message
\* and a rising edge after a word gap has just been taken without adding a
\* second one.
C1_Witness ==
  /\ pc = "loop"
  /\ led_state = 1
  /\ time_elapsed = 0
  /\ display_symbol_action = "WORD_SPACE (Continuous)"
  /\ decoded_message = <<"E", " ">>
  /\ current_morse_symbol = <<>>

\* C2 (as claimed, on the states where the message ends with a space): with
\* the LED off and a letter in the buffer, either the silence ends (a rising
\* edge, a clear, the end of the loop) or the buffer is eventually decoded
\* and emptied.
C2_BufferEventuallyFlushed ==
  [](  (/\ pc = "loop"
        /\ led_state = 0
        /\ current_morse_symbol # <<>>
        /\ EndsWithSpace(decoded_message))
    => <>(\/ current_morse_symbol = <<>>
          \/ led_state = 1
          \/ pc # "loop"))

\* The samples a decoder can be fed: the time since the previous sample and
\* whether the LED is on.
Samples == Deltas \X BOOLEAN

\* How many samples after a clear the two decoders are compared on.
LookAhead == 3

SampleSeqs == UNION {[1..n -> Samples] : n \in 0..LookAhead}

\* The decoder after the samples of seq (lines 153-200 on each).
RECURSIVE Feed(_, _)
Feed(d, seq) ==
  IF seq = <<>> THEN d
  ELSE Feed(StateMachine(Tick(d, Head(seq)[1]), Head(seq)[2]), Tail(seq))

\* C3 (as claimed): after a clear, every sequence of samples leaves the same
\* buffer and message as it leaves in a freshly started decoder.
C3_ResetEqualsFresh ==
  [][\A dt \in Deltas, is_led_on \in BOOLEAN :
        Frame(dt, is_led_on, "c") =>
           \A seq \in SampleSeqs :
              /\ Feed(Decoder', seq).current_morse_symbol
                    = Feed(Fresh, seq).current_morse_symbol
              /\ Feed(Decoder', seq).decoded_message
                    = Feed(Fresh, seq).decoded_message]_vars

\* C4 (as claimed): the final decode done twice leaves the message the
\* final decode done once leaves.
C4_FinalDecodeIdempotent ==
  FinalDecode(FinalDecode(Decoder)).decoded_message
     = FinalDecode(Decoder).decoded_message

\* C5 (as claimed): a silence check made with the LED off, at least
\* WORD_GAP_THRESHOLD_S after the last edge and with a message that does not
\* end with a space, appends the decoded buffer (if any) and one space and
\* empties the buffer.
C5_SilenceCheckAtWordGap ==
  [][\A dt \in Deltas :
        (/\ led_state = 0
         /\ print_elapsed + dt > PRINT_INTERVAL
         /\ time_elapsed + dt >= WORD_GAP_THRESHOLD_S
         /\ ~EndsWithSpace(decoded_message)
         /\ Frame(dt, FALSE, "none"))
        => /\ current_morse_symbol' = <<>>
           /\ decoded_message' =
                 IF current_morse_symbol # <<>>
                 THEN decoded_message \o <<Letter, " ">>
                 ELSE decoded_message \o <<" ">>]_vars

\* C6: a rising edge at least WORD_GAP_THRESHOLD_S after the last edge
\* appends the decoded buffer (if any), empties the buffer, appends one space
\* exactly if the message does not end with one, turns the state on and
\* restarts the edge timer.
C6_RisingEdgeWordGap ==
  [][\A dt \in Deltas, key \in QuietKeys :
        (/\ led_state = 0
         /\ time_elapsed + dt >= WORD_GAP_THRESHOLD_S
         /\ Frame(dt, TRUE, key))
        => /\ current_morse_symbol' = <<>>
           /\ decoded_message' =
                 IF current_morse_symbol # <<>>
                 THEN decoded_message \o <<Letter, " ">>
                 ELSE IF EndsWithSpace(decoded_message)
                 THEN decoded_message
                 ELSE decoded_message \o <<" ">>
           /\ led_state' = 1
           /\ time_elapsed' = 0]_vars

\* C6 witness: a rising edge after a word gap has just flushed "." as E and
\* appended the space itself.
C6_Witness ==
  /\ pc = "loop"
  /\ led_state = 1
  /\ time_elapsed = 0
  /\ display_symbol_action = "WORD_SPACE"
  /\ decoded_message = <<"E", " ">>
  /\ current_morse_symbol = <<>>

\* Four pulses with element gaps between them, each pulse and each gap two
\* tenths of a second (150 ms lies between two ticks of this clock; it
\* classifies as 0.2 s does).
FourDots ==
  <<(<<2, TRUE>>), (<<2, FALSE>>), (<<2, TRUE>>), (<<2, FALSE>>),
    (<<2, TRUE>>), (<<2, FALSE>>), (<<2, TRUE>>), (<<2, FALSE>>)>>

\* C7: a rising edge in [LETTER_GAP_THRESHOLD_S, WORD_GAP_THRESHOLD_S)
\* appends the decoded buffer (if any) and no space and empties the buffer; a
\* rising edge before LETTER_GAP_THRESHOLD_S changes neither buffer nor
\* message; both turn the state on and restart the edge timer.  So four
\* short pulses leave "...." in the buffer and a gap of 0.6 s (550 ms
\* classifies alike) then turns it into the message "H".
C7_RisingEdgeLetterOrNoGap ==
  /\ Feed(Fresh, FourDots).current_morse_symbol = <<".", ".", ".", ".">>
  /\ Feed(Fresh, FourDots).decoded_message = <<>>
  /\ Feed(Fresh, FourDots \o <<(<<6, TRUE>>)>>).current_morse_symbol = <<>>
  /\ Feed(Fresh, FourDots \o <<(<<6, TRUE>>)>>).decoded_message = <<"H">>
  /\ Feed(Fresh, FourDots \o <<(<<6, TRUE>>)>>).led_state = 1
  /\ Feed(Fresh, FourDots \o <<(<<6, TRUE>>)>>).time_elapsed = 0
  /\ [][\A dt \in Deltas, key \in QuietKeys :
        (/\ led_state = 0
         /\ time_elapsed + dt < WORD_GAP_THRESHOLD_S
         /\ Frame(dt, TRUE, key))
        => /\ IF time_elapsed + dt >= LETTER_GAP_THRESHOLD_S
              THEN /\ current_morse_symbol' = <<>>
                   /\ decoded_message' =
                         IF current_morse_symbol # <<>>
                         THEN decoded_message \o <<Letter>>
                         ELSE decoded_message
              ELSE /\ current_morse_symbol' = current_morse_symbol
                   /\ decoded_message' = decoded_message
           /\ led_state' = 1
           /\ time_elapsed' = 0]_vars

\* C7 witness: E was flushed by a letter gap (no space follows it), and the
\* rising edge just taken came before the letter gap and left "." in the
\* buffer.
C7_Witness ==
  /\ pc = "loop"
  /\ led_state = 1
  /\ time_elapsed = 0
  /\ decoded_message = <<"E">>
  /\ current_morse_symbol = <<".">>

C9_OneSpacePerSilence == silence_spaces <= 1

\* C9 (amended): between two consecutive events that restart the edge timer
\* (an edge or a clear) the silence check appends at most one space.
C9_OneSpacePerQuietPeriod == quiet_spaces <= 1

\* C9 witness: the silence check has appended its space and the LED is still
\* off, with checks continuing.
C9_Witness ==
  /\ pc = "loop"
  /\ led_state = 0
  /\ quiet_spaces = 1
  /\ silence_spaces = 1
  /\ print_elapsed > 0
  /\ decoded_message = <<"E", " ">>

\* C10: the code after the loop appends the decoded buffer to the message
\* exactly once if the buffer is not empty, and prints the message without
\* its leading and trailing spaces.
C10_FinalFlushAndTrim ==
  [][(pc = "exited" /\ pc' = "done")
        => /\ decoded_message' =
                 IF current_morse_symbol # <<>>
                 THEN Append(decoded_message, Letter)
                 ELSE decoded_message
           /\ final_message' # <<>> =>
                 /\ Head(final_message') # " "
                 /\ final_message'[Len(final_message')] # " "
           /\ \E i \in 1..(Len(decoded_message') + 1),
                 j \in 0..Len(decoded_message') :
                 /\ final_message' = SubSeq(decoded_message', i, j)
                 /\ \A k \in 1..Len(decoded_message') :
                       (k < i \/ k > j) => decoded_message'[k] = " "]_vars

\* C10 witness: the loop ended with "." in the buffer behind a leading
\* space; the final decode made the message " E" and "E" was printed.
C10_Witness ==
  /\ pc = "done"
  /\ current_morse_symbol = <<".">>
  /\ decoded_message = <<" ", "E">>
  /\ final_message = <<"E">>

\* C11: a frame on which 'c' is read ends with the buffer and the message
\* empty and last_state_change_time equal to the current time, and with the
\* light state the state machine left: the light state of before on a frame
\* without an edge, in particular still on when the light stays on.  The
\* print timer is the one the state machine left as well.
C11_ClearKeepsLedState ==
  [][\A dt \in Deltas, is_led_on \in BOOLEAN :
        Frame(dt, is_led_on, "c")
        => /\ current_morse_symbol' = <<>>
           /\ decoded_message' = <<>>
           /\ time_elapsed' = 0
           /\ led_state' = StateMachine(Tick(Decoder, dt), is_led_on).led_state
           /\ (is_led_on <=> led_state = 1) => led_state' = led_state
           /\ (led_state = 1 /\ is_led_on) => led_state' = 1
           /\ print_elapsed' =
                 StateMachine(Tick(Decoder, dt), is_led_on).print_elapsed]_vars

\* C11 witness: 'c' was read while the light was on; the decoder is still
\* in the on state, buffer and message are empty and the timer restarted.
C11_Witness ==
  /\ pc = "loop"
  /\ led_state = 1
  /\ display_symbol_action = "OUTPUT CLEARED"
  /\ current_morse_symbol = <<>>
  /\ decoded_message = <<>>
  /\ time_elapsed = 0
  /\ print_elapsed > 0

\* C15: a frame that shows the light as the decoder already has it, with no
\* clear key, leaves led_state and last_state_change_time alone.  With the
\* light on it leaves the buffer and the message alone too; with the light
\* off they change only by the silence check's flush, made when the print
\* interval has passed, the silence is longer than the word gap and the
\* message does not end with a space.  While the decoder stays in the on
\* state, only a clear changes the buffer or the message.
C15_NoEdgeFrame ==
  [][/\ \A dt \in Deltas, key \in QuietKeys :
          /\ (/\ led_state = 1
              /\ Frame(dt, TRUE, key))
             => /\ led_state' = 1
                /\ time_elapsed' = Min(time_elapsed + dt, MaxElapsed)
                /\ current_morse_symbol' = current_morse_symbol
                /\ decoded_message' = decoded_message
          /\ (/\ led_state = 0
              /\ Frame(dt, FALSE, key))
             => /\ led_state' = 0
                /\ time_elapsed' = Min(time_elapsed + dt, MaxElapsed)
                /\ IF /\ print_elapsed + dt > PRINT_INTERVAL
                      /\ time_elapsed + dt > WORD_GAP_THRESHOLD_S
                      /\ ~EndsWithSpace(decoded_message)
                   THEN /\ current_morse_symbol' = <<>>
                        /\ decoded_message' =
                              IF current_morse_symbol # <<>>
                              THEN decoded_message \o <<Letter, " ">>
                              ELSE Append(decoded_message, " ")
                   ELSE /\ current_morse_symbol' = current_morse_symbol
                        /\ decoded_message' = decoded_message
     /\ (led_state = 1 /\ led_state' = 1 /\ pc = "loop")
        => \/ /\ current_morse_symbol' = current_morse_symbol
              /\ decoded_message' = decoded_message
           \/ \E dt \in Deltas : Frame(dt, TRUE, "c")]_vars

\* C15 witness: the light came on again 0.1 s after a first pulse and a
\* further frame 0.5 s later still shows it on: the timer reads 0.5 s, the
\* buffer still holds the first pulse's symbol and nothing was decoded.
C15_Witness ==
  /\ pc = "loop"
  /\ led_state = 1
  /\ time_elapsed = MaxDelta
  /\ current_morse_symbol # <<>>
  /\ decoded_message = <<>>
  /\ display_symbol_action = "DOT"

\* C16: in every step that is not a frame on which 'c' is read (frames with
\* or without an edge, silence checks, skipped frames, the end of the loop,
\* the final decode) the message of before is a prefix of the message of
\* after.
C16_AppendOnly ==
  [][\/ /\ Len(decoded_message) <= Len(decoded_message')
        /\ SubSeq(decoded_message', 1, Len(decoded_message)) = decoded_message
     \/ \E dt \in Deltas, is_led_on \in BOOLEAN : Frame(dt, is_led_on, "c")]_vars

\* C16 witness: the loop ended with message "T" and "." in the buffer, and
\* the final decode extended the message to "TE".
C16_Witness ==
  /\ pc = "done"
  /\ current_morse_symbol = <<".">>
  /\ decoded_message = <<"T", "E">>
  /\ final_message = <<"T", "E">>

\* C17: a step that makes the message longer either appends one space while
\* the buffer is empty, or finds the buffer non-empty and appends its
\* decoded character, alone or followed by one space.  No character is
\* ever decoded from an empty buffer.
C17_FlushOnlyNonEmpty ==
  [][Len(decoded_message') > Len(decoded_message)
        => LET added == SubSeq(decoded_message', Len(decoded_message) + 1,
                               Len(decoded_message'))
           IN  /\ SubSeq(decoded_message', 1, Len(decoded_message))
                     = decoded_message
               /\ IF current_morse_symbol = <<>>
                  THEN added = <<" ">>
                  ELSE added \in {<<Letter>>, <<Letter, " ">>}]_vars

\* C17 witness: the silence check found "-" in the buffer after more than a
\* second without light and appended "T" and a space.
C17_Witness ==
  /\ pc = "loop"
  /\ led_state = 0
  /\ display_symbol_action = "WORD_SPACE (Continuous)"
  /\ current_morse_symbol = <<>>
  /\ decoded_message = <<"T", " ">>
  /\ print_elapsed = 0

\* C18: a frame that runs the silence check (light off, decoder in the off
\* state, no clear key) leaves led_state at 0 and last_state_change_time
\* where it was, whether or not it appends a space: no such frame ends in
\* the on state or with a timer other than the advanced one.  More
\* generally no frame without an edge and without 'c' moves
\* last_state_change_time, and neither do skipped frames, the end of the
\* loop and the final decode: it moves only on a rising edge, a falling
\* edge or a clear.
C18_TimerMovesOnlyOnEdgeOrClear ==
  [][/\ \A dt \in Deltas, key \in QuietKeys :
          /\ (/\ led_state = 0
              /\ \/ led_state' # 0
                 \/ time_elapsed' # Min(time_elapsed + dt, MaxElapsed))
             => ~Frame(dt, FALSE, key)
          /\ time_elapsed' # Min(time_elapsed + dt, MaxElapsed)
             => /\ ~Frame(dt, led_state = 1, key)
                /\ ~SkipFrame(dt)
     /\ time_elapsed' # time_elapsed => ~(ReadFail \/ Cleanup)]_vars

\* C18 witness: the silence check has just appended its space to an empty
\* message; the decoder is still in the off state and the silence timer
\* still reads more than a second.
C18_Witness ==
  /\ pc = "loop"
  /\ led_state = 0
  /\ display_symbol_action = "WORD_SPACE (Continuous)"
  /\ decoded_message = <<" ">>
  /\ print_elapsed = 0
  /\ time_elapsed > WORD_GAP_THRESHOLD_S

\* ------------------------------------------------- decode_morse on its own
\* The longest pattern handed to decode_morse.
MaxPatternLen == 6

\* Every string of '.' and '-' of at most MaxPatternLen characters, the
\* empty one included.
Patterns == UNION {[1..n -> {".", "-"}] : n \in 0..MaxPatternLen}

\* Any pattern in the buffer, nothing decoded yet.
DecodeInit ==
  /\ current_morse_symbol \in Patterns
  /\ led_state = 0
  /\ decoded_message = <<>>
  /\ time_elapsed = 0
  /\ print_elapsed = 0
  /\ display_symbol_action = "IDLE"
  /\ pc = "exited"
  /\ final_message = <<>>
  /\ silence_spaces = 0
  /\ quiet_spaces = 0
  /\ quit_requested = FALSE
  /\ skipped_frames = 0
  /\ shadow = [current_morse_symbol |-> <<>>, decoded_message |-> <<>>]

\* One call decode_morse(current_morse_symbol, MORSE_TO_TEXT), its result
\* kept as the message.
DecodeBuffer ==
  /\ pc = "exited"
  /\ decoded_message' = <<decode_morse(current_morse_symbol, MORSE_TO_TEXT)>>
  /\ pc' = "done"
  /\ UNCHANGED <<led_state, current_morse_symbol, time_elapsed, print_elapsed,
                 display_symbol_action, final_message, silence_spaces,
                 quiet_spaces, quit_requested, skipped_frames, shadow>>

DecodeSpec == DecodeInit /\ [][DecodeBuffer]_vars

\* International Morse code, written down independently of the table: the
\* letters as a binary tree (the root is position 1, a dot leads from
\* position i to 2i, a dash to 2i+1), the digits by their rule.
MorseTree ==
  <<"", "E", "T", "I", "A", "N", "M", "S", "U", "R", "W", "D", "K", "G", "O",
    "H", "V", "F", "", "L", "", "P", "J", "B", "X", "C", "Y", "Z", "Q", "",
    "">>

RECURSIVE TreePosition(_)
TreePosition(p) ==
  IF p = <<>> THEN 1
  ELSE 2 * TreePosition(SubSeq(p, 1, Len(p) - 1))
       + (IF p[Len(p)] = "-" THEN 1 ELSE 0)

Digit == <<"1", "2", "3", "4", "5", "6", "7", "8", "9", "0">>

\* The digit n (10 stands for 0): n dots then dashes up to 5, and beyond 5
\* n-5 dashes then dots.
DigitPattern(n) ==
  [i \in 1..5 |-> IF n <= 5 THEN (IF i <= n THEN "." ELSE "-")
                  ELSE (IF i <= n - 5 THEN "-" ELSE ".")]

\* The character of a pattern in international Morse code, "" if none.
InternationalMorse(p) ==
  IF Len(p) = 5
  THEN IF \E n \in 1..10 : DigitPattern(n) = p
       THEN Digit[CHOOSE n \in 1..10 : DigitPattern(n) = p]
       ELSE ""
  ELSE IF Len(p) <= 4 THEN MorseTree[TreePosition(p)] ELSE ""

Letters ==
  {"A", "B", "C", "D", "E", "F", "G", "H", "I", "J", "K", "L", "M", "N", "O",
   "P", "Q", "R", "S", "T", "U", "V", "W", "X", "Y", "Z"}

Digits == {"0", "1", "2", "3", "4", "5", "6", "7", "8", "9"}

\* C12: the table has 36 patterns of '.' and '-', none longer than 5, for
\* 36 different characters: the 26 letters and the 10 digits.  For every
\* pattern of '.' and '-', the empty one and those longer than 5 included,
\* decode_morse returns a value: the pattern's character in international
\* Morse code, which is the table's, if it has one, and '#' otherwise.
C12_DecodeTotal ==
  /\ Cardinality(DOMAIN MORSE_TO_TEXT) = 36
  /\ Cardinality(Letters) = 26 /\ Cardinality(Digits) = 10
  /\ {MORSE_TO_TEXT[p] : p \in DOMAIN MORSE_TO_TEXT} = Letters \cup Digits
  /\ \A p \in DOMAIN MORSE_TO_TEXT :
        /\ Len(p) \in 1..5
        /\ \A i \in 1..Len(p) : p[i] \in {".", "-"}
  /\ pc = "done"
     => /\ Len(decoded_message) = 1
        /\ decoded_message[1] =
              IF InternationalMorse(current_morse_symbol) # ""
              THEN InternationalMorse(current_morse_symbol)
              ELSE "#"
        /\ current_morse_symbol \in DOMAIN MORSE_TO_TEXT
           <=> decoded_message[1] # "#"
        /\ current_morse_symbol \in DOMAIN MORSE_TO_TEXT
           => decoded_message[1] = MORSE_TO_TEXT[current_morse_symbol]

\* C12 witness: a pattern of more than five symbols was looked up and the
\* result is '#'.
C12_Witness ==
  /\ pc = "done"
  /\ Len(current_morse_symbol) > 5
  /\ decoded_message = <<"#">>

\* ------------------------------------------- a clock that does not advance
\* time.time() (line 153) is the wall clock: two frames can read the same
\* value, and after a clock adjustment a frame can read an earlier one.
\* The largest step back, in tenths of a second.
MaxSkew == 1

SkewDeltas == (-MaxSkew)..0 \cup Deltas

\* A frame read dt after the previous one, dt possibly zero or negative.
\* The differences are followed down to -MaxSkew, and a step back is taken
\* only from differences that are known exactly.
SkewFrame(dt, is_led_on) ==
  /\ time_elapsed + dt >= -MaxSkew
  /\ print_elapsed + dt >= -MaxSkew
  /\ dt < 0 => /\ time_elapsed < MaxElapsed
               /\ print_elapsed < MaxPrintElapsed
  /\ Frame(dt, is_led_on, "none")

SkewNext == \E dt \in SkewDeltas, is_led_on \in BOOLEAN : SkewFrame(dt, is_led_on)

SkewSpec == Init /\ [][SkewNext]_vars

\* C13: a frame that takes an edge at a time equal to or earlier than
\* last_state_change_time is handled like any other edge: led_state flips
\* and last_state_change_time becomes the frame's time; a falling edge
\* appends a dot to the buffer, a rising edge leaves the buffer alone, and
\* the message is unchanged in both.
C13_NonPositiveDuration ==
  [][\A dt \in SkewDeltas :
        (/\ time_elapsed + dt <= 0
         /\ SkewFrame(dt, led_state = 0))
        => /\ led_state' = 1 - led_state
           /\ time_elapsed' = 0
           /\ decoded_message' = decoded_message
           /\ current_morse_symbol' =
                 IF led_state = 1 THEN Append(current_morse_symbol, ".")
                 ELSE current_morse_symbol]_vars

\* C13 witness: the light came on at a frame stamped 0.1 s before the start
\* and went off at a frame with the same stamp: a pulse of length zero, and
\* the buffer holds a dot.
C13_Witness ==
  /\ led_state = 0
  /\ time_elapsed = 0
  /\ print_elapsed < 0
  /\ current_morse_symbol = <<".">>
  /\ decoded_message = <<>>
  /\ display_symbol_action = "DOT"

\* ----------------------------------------------------- long runs of pulses
\* The buffer followed up to MaxBufferLen symbols, the message up to
\* BufferMsgLen characters.
MaxBufferLen == 6
BufferMsgLen == 1

BufferFrame(dt, is_led_on) ==
  /\ FrameWithin(dt, is_led_on, "none", MaxBufferLen, BufferMsgLen)
  /\ UNCHANGED shadow

BufferNext == \E dt \in Deltas, is_led_on \in BOOLEAN : BufferFrame(dt, is_led_on)

BufferSpec == Init /\ [][BufferNext]_vars

\* C14: the buffer never holds more than 5 symbols, the length of the
\* longest pattern of the table.
C14_BufferAtMostFive ==
  Len(current_morse_symbol) <= 5

\* --------------------------------------------------------- the 'q' command
\* The user presses 'q' while the loop runs; the key waits until a call of
\* cv2.waitKey (line 294) reads it.
PressQ ==
  /\ pc = "loop"
  /\ ~quit_requested
  /\ quit_requested' = TRUE
  /\ UNCHANGED <<led_state, current_morse_symbol, decoded_message,
                 time_elapsed, print_elapsed, display_symbol_action, pc,
                 final_message, silence_spaces, quiet_spaces, skipped_frames,
                 shadow>>

\* An iteration that reaches line 294: it reads 'q' exactly if 'q' waits.
TerminateFrame(dt, is_led_on, key) ==
  /\ quit_requested <=> key = "q"
  /\ Frame(dt, is_led_on, key)

\* An iteration skipped at line 143: whatever key waits is not read.
TerminateSkip(dt) ==
  /\ SkipIteration(dt)
  /\ skipped_frames' = IF quit_requested THEN 1 - skipped_frames
                       ELSE skipped_frames

\* The while loop takes its next iteration.
Iterate ==
  \/ \E dt \in Deltas, is_led_on \in BOOLEAN, key \in Keys :
        TerminateFrame(dt, is_led_on, key)
  \/ \E dt \in Deltas : TerminateSkip(dt)
  \/ ReadFail

TerminateNext ==
  \/ PressQ
  \/ Iterate
  \/ Cleanup

\* The loop keeps iterating and the code after it runs; nothing makes the
\* camera deliver a frame that the ROI fits.
TerminateSpec ==
  Init /\ [][TerminateNext]_vars /\ WF_vars(Iterate) /\ WF_vars(Cleanup)

\* C19: whenever 'q' has been pressed while the loop runs, the loop
\* eventually ends and the final decode is made.
C19_QuitEventuallyObserved ==
  quit_requested ~> pc = "done"

\* ------------------------------------------ a second run without the check
\* The decoder of a second run that is shown the frames with an edge, at the
\* same times, and none of the frames in between, so that its silence check
\* never runs.  Its last_state_change_time is the first run's, both being
\* assigned at edges only (lines 176, 199); its buffer and message are kept
\* in shadow.
ShadowDecoder ==
  [Decoder EXCEPT !.current_morse_symbol = shadow.current_morse_symbol,
                  !.decoded_message = shadow.decoded_message]

\* A frame without a key: the second run sees it if it has an edge.
ShadowFrame(dt, is_led_on) ==
  /\ FrameWithin(dt, is_led_on, "none", MaxSymLen, MaxMsgLen)
  /\ \E sd \in {StateMachine(Tick(ShadowDecoder, dt), is_led_on)} :
        shadow' = IF is_led_on # (led_state = 1)
                  THEN [current_morse_symbol |-> sd.current_morse_symbol,
                        decoded_message |-> sd.decoded_message]
                  ELSE shadow

ShadowNext ==
  \/ \E dt \in Deltas, is_led_on \in BOOLEAN : ShadowFrame(dt, is_led_on)
  \/ \E dt \in Deltas : SkipFrame(dt)

ShadowSpec == Init /\ [][ShadowNext]_vars

\* C20: with no clear, after every rising edge (and for as long as the
\* light then stays on) the buffer and the message are those of the run
\* that was shown the same edges at the same times and no frame in between.
C20_SilenceCheckIndependent ==
  led_state = 1
  => /\ current_morse_symbol = shadow.current_morse_symbol
     /\ decoded_message = shadow.decoded_message

\* C20 witness: the silence check decoded "." and appended a space during a
\* silence, the light then came on; the run without silence checks decoded
\* the same "E " at the rising edge.
C20_Witness ==
  /\ led_state = 1
  /\ time_elapsed = 0
  /\ display_symbol_action = "WORD_SPACE (Continuous)"
  /\ decoded_message = <<"E", " ">>
  /\ shadow.decoded_message = <<"E", " ">>
  /\ shadow.current_morse_symbol = <<>>

====
